---- MODULE Spec2Model ----
(***************************************************************************)
(* EventChron: the activity store behind the REST handlers                 *)
(*   PATCH /api/events/[id]/activities/[activityId]   (partial update)     *)
(*   PUT / GET / DELETE /api/events/[id]              (bulk replace, ...)  *)
(* and the event page that drives them (Start, Stop, Start-next, the       *)
(* activity list editor).                                                  *)
(* Demo mode (the pages under /demo) keeps its events in the browser's     *)
(* localStorage, which the tabs of the browser share.                      *)
(*                                                                         *)
(* Encoding.  An optional number (a nullable column, an optional field of  *)
(* the client's Activity) is a sequence: << >> is null/undefined, <<v>> is *)
(* the value v.  A number of a JSON request body is written in half units  *)
(* (the integer 2n stands for the JSON number n), so that Math.floor is    *)
(* not the identity; stored values are whole seconds.                      *)
(*                                                                         *)
(* Database.  prisma.$transaction runs on the production database,         *)
(* PostgreSQL, at its default isolation (READ COMMITTED): a statement sees *)
(* what was committed when it starts plus its own transaction's writes, a  *)
(* written row stays locked until the transaction ends, and a statement    *)
(* that meets a row locked by another transaction waits for it.            *)
(***************************************************************************)
EXTENDS Integers, Sequences, FiniteSets, TLC

VARIABLES
    eventOwner,   \* Event.userId per event id; NoUser: no such row
    eventName,    \* Event.eventName per event id
    acts,         \* the committed Activity rows of each event, in creation order
    nextId,       \* the next fresh Activity id
    reqs,         \* the requests being handled: handler position, transaction state, response
    served,       \* how many requests have reached a handler so far
    page,         \* the event page open in u1's browser: its React state
    localStorage, \* demo mode: the events under the key eventchron_demo_events
    tabs,         \* demo mode: the browser tabs, each with its route and what its handler holds
    generated,    \* demo mode: how many ids generateId() has given out
    handled       \* demo mode: how many handlers have gone to the store so far

vars == <<eventOwner, eventName, acts, nextId, reqs, served, page,
          localStorage, tabs, generated, handled>>
\* the signed-in application leaves demo mode alone, and demo mode the application
demoVars == <<localStorage, tabs, generated, handled>>
appVars == <<eventOwner, eventName, acts, nextId, reqs, served, page>>

\* ------------------------------------------------------------------ bounds
MaxReq == 2      \* requests handled at the same time
MaxLen == 2      \* longest activity list of a request body
MaxPageRequests == 4   \* requests the page sends in one run
MaxActivities == 3     \* longest activity list the editor builds
MaxElapsed == 3        \* longest time a Timer runs, in seconds
MaxEdits == 1          \* changes made in the activity list editor in one run
MaxServed == 2   \* requests served in one run
MaxRaceRequests == 5  \* requests the page sends in one run when it does not wait for the responses
MaxGenerated == 6      \* ids generateId() gives out in one run
MaxHandled == 4        \* handlers of the demo pages that go to the store in one run

\* ------------------------------------------------------------------ domains
Users == {"u1", "u2"}
NoUser == "nobody"
Anon == "anon"
EventIds == {"e1", "e2", "e3"}
ReqIds == 1..MaxReq

Null == << >>
Some(v) == <<v>>

\* ------------------------------------------------------------------ JavaScript conversions
\* Math.floor of a JSON number (half units in, whole seconds out)
MathFloor(x) == x \div 2
\* the JSON number of a whole value held by the client
ToJson(v) == 2 * v
\* x != null ? Math.floor(Number(x)) : null
FloorOrNull(x) == IF x = Null THEN Null ELSE Some(MathFloor(x[1]))
\* s.trim(), on the strings that occur
Trim(s) ==
    CASE s \in {" ", ""} -> ""
      [] s = "B " -> "B"
      [] s = "Fair " -> "Fair"
      [] OTHER -> s
\* String(activity.activityName || '').trim() || 'Activity'
\* ("#7" is the number 7 sent where a string is expected)
PutName(s) ==
    IF s = "#7" THEN "7"
    ELSE IF Trim(s) = "" THEN "Activity"
    ELSE Trim(s)

\* ------------------------------------------------------------------ the store
Range(s) == {s[i] : i \in DOMAIN s}
\* the rows that remain when those with an id in ids are gone
Without(rows, ids) ==
    LET F[i \in 0..Len(rows)] ==
            IF i = 0 THEN << >>
            ELSE IF rows[i].id \notin ids THEN Append(F[i-1], rows[i]) ELSE F[i-1]
    IN  F[Len(rows)]

AllRows == UNION {Range(acts[e]) : e \in EventIds}
RowIds(e) == {row.id : row \in Range(acts[e])}
EventOf(i) == CHOOSE e \in EventIds : i \in RowIds(e)

\* orderBy: { order: 'asc' }: rows with equal order come in creation order
OrderBy(rows) ==
    LET n == Len(rows)
        Before(i, j) == \/ rows[i].order < rows[j].order
                        \/ rows[i].order = rows[j].order /\ i < j
        Rank(i) == Cardinality({j \in 1..n : Before(j, i)}) + 1
    IN  [k \in 1..n |-> rows[CHOOSE i \in 1..n : Rank(i) = k]]

\* ------------------------------------------------------------------ requests and transactions
\* a request that comes from somewhere else than the page
Api == [by |-> "api"]

\* the page before its first render (edits counts the changes made in the
\* activity list editor so far)
NoPage ==
    [event |-> Null, currentActivityIndex |-> 0, isEventStarted |-> FALSE,
     allCompletedState |-> FALSE, isEditing |-> FALSE, editedActivities |-> << >>,
     edits |-> 0]

Idle == [kind |-> "none", pc |-> "idle"]

\* a request that has entered its handler (pre remembers the event's rows at
\* that moment, thrown the error its transaction ended with)
NewReq(kind, variant, src, u, e, a, body) ==
    [kind |-> kind, variant |-> variant, src |-> src, user |-> u, event |-> e,
     act |-> a, body |-> body, pc |-> "begin",
     scan |-> {}, deact |-> {}, del |-> {}, data |-> << >>,
     pre |-> acts[e], thrown |-> "", status |-> 0, error |-> "", out |-> << >>]

\* NextResponse.json(payload, { status }): the handler is over, its transaction
\* (if any) has ended and holds no row any more
Respond(q, status, error, out) ==
    [q EXCEPT !.pc = "done", !.status = status, !.error = error, !.out = out,
              !.scan = {}, !.deact = {}, !.del = {}]

InTx(r) == reqs[r].pc \notin {"idle", "done"}
\* the rows a transaction has written and not yet committed
Locks(r) == IF InTx(r) THEN reqs[r].deact \cup reqs[r].del ELSE {}
LockedByOther(r, i) == \E q \in ReqIds \ {r} : i \in Locks(q)

\* ------------------------------------------------------------------ PATCH (partial update)
\* typeof body.activityName !== 'string' || !body.activityName.trim()
InvalidName(s) == s = "#7" \/ Trim(s) = ""

\* the checks of the transaction body that throw before anything is written
PatchValidation(body) ==
    IF "activityName" \in body.F /\ InvalidName(body.activityName)
        THEN "INVALID_ACTIVITY_NAME"
    ELSE IF "timeAllotted" \in body.F /\ MathFloor(body.timeAllotted) < 0
        THEN "INVALID_TIME_ALLOTTED"
    ELSE "ok"

\* updateData: only the fields that are provided
UpdateData(body) ==
    [f \in body.F |->
        CASE f = "activityName"   -> Trim(body.activityName)
          [] f = "timeAllotted"   -> MathFloor(body.timeAllotted)
          [] f = "timeSpent"      -> FloorOrNull(body.timeSpent)
          [] f = "extraTimeTaken" -> FloorOrNull(body.extraTimeTaken)
          [] f = "timeGained"     -> FloorOrNull(body.timeGained)
          [] f = "isCompleted"    -> body.isCompleted = TRUE
          [] f = "isActive"       -> body.isActive = TRUE
          [] f = "order"          -> MathFloor(body.order)]

\* the update written with every flag, supplied or not
ApplyUpdate_Unconditional(row, data) ==
    [f \in DOMAIN row |->
        IF f \in DOMAIN data THEN data[f]
        ELSE IF f \in {"isCompleted", "isActive"} THEN FALSE
        ELSE row[f]]

\* tx.activity.update({ where: { id }, data: updateData }) on one row
ApplyUpdate(row, data) ==
    [f \in DOMAIN row |-> IF f \in DOMAIN data THEN data[f] ELSE row[f]]

\* the catch block of the handler with the transaction timeouts
PatchCatch(msg) ==
    CASE msg = "EVENT_NOT_FOUND" -> [status |-> 404, error |-> "Event not found"]
      [] msg = "ACTIVITY_NOT_FOUND" -> [status |-> 404, error |-> "Activity not found"]
      [] msg = "INVALID_ACTIVITY_NAME" ->
            [status |-> 400, error |-> "Activity name must be a non-empty string"]
      [] msg = "INVALID_TIME_ALLOTTED" ->
            [status |-> 400, error |-> "Time allotted must be a non-negative number"]
      [] msg \in {"timeout", "ECONNRESET"} ->
            [status |-> 503, error |-> "Service temporarily unavailable. Please try again."]
      [] OTHER -> [status |-> 500, error |-> "Failed to update activity"]

\* the catch block of the handler without them
PatchCatchLegacy(msg) ==
    CASE msg = "EVENT_NOT_FOUND" -> [status |-> 404, error |-> "Event not found"]
      [] msg = "ACTIVITY_NOT_FOUND" -> [status |-> 404, error |-> "Activity not found"]
      [] msg = "INVALID_ACTIVITY_NAME" ->
            [status |-> 400, error |-> "Activity name must be a non-empty string"]
      [] msg = "INVALID_TIME_ALLOTTED" ->
            [status |-> 400, error |-> "Time allotted must be a non-negative number"]
      [] OTHER -> [status |-> 500, error |-> "Failed to update activity"]

\* the catch block of PUT
PutCatch(msg) ==
    IF msg = "EVENT_NOT_FOUND"
        THEN [status |-> 404, error |-> "Event not found"]
        ELSE [status |-> 500, error |-> "Failed to update event"]

\* the catch block of DELETE
DeleteCatch(msg) ==
    IF msg = "EVENT_NOT_FOUND"
        THEN [status |-> 404, error |-> "Event not found"]
        ELSE [status |-> 500, error |-> "Failed to delete event"]

Catch(q, msg) ==
    CASE q.kind = "PATCH" /\ q.variant = "timeouts" -> PatchCatch(msg)
      [] q.kind = "PATCH" -> PatchCatchLegacy(msg)
      [] q.kind = "PUT" -> PutCatch(msg)
      [] OTHER -> DeleteCatch(msg)

\* the statements run on the client outside any transaction: what was written
\* before the error stays written
Rollback_NoTransaction(r, msg) ==
    LET q == reqs[r]
    IN  /\ reqs' = [reqs EXCEPT ![r] =
                        [Respond(q, Catch(q, msg).status, Catch(q, msg).error, << >>)
                            EXCEPT !.thrown = msg]]
        /\ acts' = [e \in EventIds |->
                        LET rows == Without(acts[e], q.del) IN
                        [i \in DOMAIN rows |->
                            IF rows[i].id \in q.deact
                                THEN [rows[i] EXCEPT !.isActive = FALSE] ELSE rows[i]]]
        /\ UNCHANGED <<eventOwner, eventName, nextId, served, page>>

\* an error thrown inside prisma.$transaction: the transaction is rolled back
\* (its uncommitted writes are dropped) and the catch block answers
Rollback(r, msg) ==
    /\ reqs' = [reqs EXCEPT ![r] =
                    [Respond(reqs[r], Catch(reqs[r], msg).status, Catch(reqs[r], msg).error, << >>)
                        EXCEPT !.thrown = msg]]
    /\ UNCHANGED <<eventOwner, eventName, acts, nextId, served, page>>

\* the session check, then the body is parsed and the transaction is asked for
PatchRecv(r, variant, src, u, e, a, body) ==
    /\ reqs[r].pc = "idle"
    /\ reqs' = [reqs EXCEPT ![r] =
            IF u = Anon
                THEN Respond(NewReq("PATCH", variant, src, u, e, a, body), 401, "Unauthorized", << >>)
                ELSE NewReq("PATCH", variant, src, u, e, a, body)]
    /\ served' = served + 1
    /\ UNCHANGED <<eventOwner, eventName, acts, nextId>>

\* the ownership mismatch reported as an error of its own
EventCheck_Forbidden(e, u) ==
    IF eventOwner[e] = NoUser THEN "EVENT_NOT_FOUND"
    ELSE IF eventOwner[e] # u THEN "FORBIDDEN"
    ELSE "ok"

\* if (!event) ...; if (event.userId !== session.user.id) ...
EventCheck(e, u) ==
    IF eventOwner[e] = NoUser THEN "EVENT_NOT_FOUND"
    ELSE IF eventOwner[e] # u THEN "EVENT_NOT_FOUND"
    ELSE "ok"

\* the activity looked up by id alone
ActivityCheck_AnyEvent(e, a) ==
    IF a \notin {row.id : row \in AllRows} THEN "ACTIVITY_NOT_FOUND"
    ELSE "ok"

\* if (!existingActivity) ...; if (existingActivity.eventId !== eventId) ...
ActivityCheck(e, a) ==
    IF a \notin {row.id : row \in AllRows} THEN "ACTIVITY_NOT_FOUND"
    ELSE IF EventOf(a) # e THEN "ACTIVITY_NOT_FOUND"
    ELSE "ok"

\* tx.event.findUnique and the ownership check
PatchReadEvent(r) ==
    /\ reqs[r].kind = "PATCH" /\ reqs[r].pc = "begin"
    /\ IF EventCheck(reqs[r].event, reqs[r].user) # "ok"
          THEN Rollback(r, EventCheck(reqs[r].event, reqs[r].user))
          ELSE /\ reqs' = [reqs EXCEPT ![r].pc = "readAct"]
               /\ UNCHANGED <<eventOwner, eventName, acts, nextId, served, page>>

\* tx.activity.findUnique, the membership check, validation, updateData
PatchReadActivity(r) ==
    LET q == reqs[r] IN
    /\ q.kind = "PATCH" /\ q.pc = "readAct"
    /\ IF ActivityCheck(q.event, q.act) # "ok"
          THEN Rollback(r, ActivityCheck(q.event, q.act))
       ELSE IF PatchValidation(q.body) # "ok"
          THEN Rollback(r, PatchValidation(q.body))
       ELSE /\ reqs' = [reqs EXCEPT ![r].data = UpdateData(q.body),
                                    ![r].pc = IF "isActive" \in q.body.F /\ q.body.isActive = TRUE
                                                 THEN "deact" ELSE "update"]
            /\ UNCHANGED <<eventOwner, eventName, acts, nextId, served, page>>

\* the rows tx.activity.updateMany selects: the event's other active rows
OtherActive(e, a) == {row.id : row \in {x \in Range(acts[e]) : x.id # a /\ x.isActive}}

\* tx.activity.updateMany({ where: { eventId, id: { not: activityId }, isActive: true },
\*                          data: { isActive: false } })
\* the statement picks its rows and, when none is locked by another
\* transaction, writes them; otherwise it waits with the rows it picked
PatchDeactivate(r) ==
    LET q == reqs[r]
        picked == OtherActive(q.event, q.act)
    IN  /\ q.kind = "PATCH" /\ q.pc = "deact"
        /\ reqs' = [reqs EXCEPT ![r] =
                IF \E i \in picked : LockedByOther(r, i)
                    THEN [q EXCEPT !.scan = picked, !.pc = "deactWait"]
                    ELSE [q EXCEPT !.deact = picked, !.pc = "update"]]
        /\ UNCHANGED <<eventOwner, eventName, acts, nextId, served, page>>

\* the waiting updateMany goes on when the rows are free again: each picked row
\* is looked at in its newest committed version and written if it still matches
PatchDeactivateResume(r) ==
    LET q == reqs[r] IN
    /\ q.kind = "PATCH" /\ q.pc = "deactWait"
    /\ \A i \in q.scan : ~LockedByOther(r, i)
    /\ reqs' = [reqs EXCEPT ![r].deact = q.scan \cap OtherActive(q.event, q.act),
                            ![r].scan = {},
                            ![r].pc = "update"]
    /\ UNCHANGED <<eventOwner, eventName, acts, nextId, served, page>>

\* the Activity table once the transaction's writes are committed
PatchCommitted(q) ==
    [e \in EventIds |->
        [i \in DOMAIN acts[e] |->
            LET row == acts[e][i] IN
            IF row.id = q.act THEN ApplyUpdate(row, q.data)
            ELSE IF row.id \in q.deact THEN [row EXCEPT !.isActive = FALSE]
            ELSE row]]

\* tx.activity.update of the target, the closing findUnique, commit, 200
PatchUpdate(r) ==
    LET q == reqs[r] IN
    /\ q.kind = "PATCH" /\ q.pc = "update"
    /\ ~LockedByOther(r, q.act)
    /\ IF q.act \notin {row.id : row \in AllRows}
          THEN Rollback(r, "P2025")
          ELSE /\ acts' = PatchCommitted(q)
               /\ reqs' = [reqs EXCEPT ![r] =
                              Respond(q, 200, "", OrderBy(PatchCommitted(q)[q.event]))]
               /\ UNCHANGED <<eventOwner, eventName, nextId, served, page>>

\* ------------------------------------------------------------------ PUT (bulk replace)
\* typeof eventName !== 'string' || !eventName.trim()
PutValidation(body) ==
    IF "eventName" \in body.F /\ (body.eventName = "#7" \/ Trim(body.eventName) = "")
        THEN "Event name must be a non-empty string"
    ELSE IF "eventDate" \in body.F /\ body.eventDate = "NaN"
        THEN "Invalid event date"
    ELSE "ok"

\* Math.floor(Number(activity.timeAllotted) || 0)
FloorOrZero(x) == IF x = Null THEN 0 ELSE MathFloor(x[1])

\* one element of activities.map(...): the row created for list position index
PutCreate(activity, index, id) ==
    [id |-> id,
     activityName |-> PutName(activity.activityName),
     timeAllotted |-> FloorOrZero(activity.timeAllotted),
     timeSpent |-> FloorOrNull(activity.timeSpent),
     extraTimeTaken |-> FloorOrNull(activity.extraTimeTaken),
     timeGained |-> FloorOrNull(activity.timeGained),
     isCompleted |-> activity.isCompleted = TRUE,
     isActive |-> activity.isActive = TRUE,
     order |-> index]

\* the session check, the body, the event-level validation
PutRecv(r, src, u, e, body) ==
    /\ reqs[r].pc = "idle"
    /\ reqs' = [reqs EXCEPT ![r] =
            IF u = Anon
                THEN Respond(NewReq("PUT", "", src, u, e, 0, body), 401, "Unauthorized", << >>)
            ELSE IF PutValidation(body) # "ok"
                THEN Respond(NewReq("PUT", "", src, u, e, 0, body), 400, PutValidation(body), << >>)
            ELSE NewReq("PUT", "", src, u, e, 0, body)]
    /\ served' = served + 1
    /\ UNCHANGED <<eventOwner, eventName, acts, nextId>>

\* tx.event.findUnique and the ownership check
PutReadEvent(r) ==
    /\ reqs[r].kind = "PUT" /\ reqs[r].pc = "begin"
    /\ IF EventCheck(reqs[r].event, reqs[r].user) # "ok"
          THEN Rollback(r, EventCheck(reqs[r].event, reqs[r].user))
          ELSE /\ reqs' = [reqs EXCEPT ![r].pc = IF "activities" \in reqs[r].body.F
                                                    THEN "delete" ELSE "write"]
               /\ UNCHANGED <<eventOwner, eventName, acts, nextId, served, page>>

\* tx.activity.deleteMany({ where: { eventId } })
PutDelete(r) ==
    LET q == reqs[r]
        picked == RowIds(q.event)
    IN  /\ q.kind = "PUT" /\ q.pc = "delete"
        /\ reqs' = [reqs EXCEPT ![r] =
                IF \E i \in picked : LockedByOther(r, i)
                    THEN [q EXCEPT !.scan = picked, !.pc = "deleteWait"]
                    ELSE [q EXCEPT !.del = picked, !.pc = "write"]]
        /\ UNCHANGED <<eventOwner, eventName, acts, nextId, served, page>>

\* the waiting deleteMany goes on: it deletes the picked rows that still exist
PutDeleteResume(r) ==
    LET q == reqs[r] IN
    /\ q.kind = "PUT" /\ q.pc = "deleteWait"
    /\ \A i \in q.scan : ~LockedByOther(r, i)
    /\ reqs' = [reqs EXCEPT ![r].del = q.scan \cap RowIds(q.event),
                            ![r].scan = {},
                            ![r].pc = "write"]
    /\ UNCHANGED <<eventOwner, eventName, acts, nextId, served, page>>

\* the event's rows once the transaction's writes are committed
PutCommitted(q) ==
    IF "activities" \in q.body.F
        THEN LET L == q.body.activities
             IN  Without(acts[q.event], q.del)
                    \o [i \in 1..Len(L) |-> PutCreate(L[i], i - 1, nextId + i - 1)]
        ELSE acts[q.event]

\* tx.event.update with the nested create, commit, 200
PutWrite(r) ==
    LET q == reqs[r] IN
    /\ q.kind = "PUT" /\ q.pc = "write"
    /\ IF eventOwner[q.event] = NoUser
          THEN Rollback(r, "P2025")
          ELSE /\ acts' = [acts EXCEPT ![q.event] = PutCommitted(q)]
               /\ nextId' = IF "activities" \in q.body.F
                               THEN nextId + Len(q.body.activities) ELSE nextId
               /\ eventName' = IF "eventName" \in q.body.F
                                  THEN [eventName EXCEPT ![q.event] = Trim(q.body.eventName)]
                                  ELSE eventName
               /\ reqs' = [reqs EXCEPT ![r] = Respond(q, 200, "", OrderBy(PutCommitted(q)))]
               /\ UNCHANGED <<eventOwner, served, page>>

\* ------------------------------------------------------------------ GET
Get(r, src, u, e) ==
    /\ reqs[r].pc = "idle"
    /\ reqs' = [reqs EXCEPT ![r] =
            IF u = Anon
                THEN Respond(NewReq("GET", "", src, u, e, 0, << >>), 401, "Unauthorized", << >>)
            ELSE IF EventCheck(e, u) # "ok"
                THEN Respond(NewReq("GET", "", src, u, e, 0, << >>), 404, "Event not found", << >>)
            ELSE Respond(NewReq("GET", "", src, u, e, 0, << >>), 200, "", OrderBy(acts[e]))]
    /\ served' = served + 1
    /\ UNCHANGED <<eventOwner, eventName, acts, nextId>>

\* ------------------------------------------------------------------ DELETE
DeleteRecv(r, u, e) ==
    /\ reqs[r].pc = "idle"
    /\ reqs' = [reqs EXCEPT ![r] =
            IF u = Anon
                THEN Respond(NewReq("DELETE", "", Api, u, e, 0, << >>), 401, "Unauthorized", << >>)
                ELSE NewReq("DELETE", "", Api, u, e, 0, << >>)]
    /\ served' = served + 1
    /\ UNCHANGED <<eventOwner, eventName, acts, nextId>>

\* tx.event.findUnique and the ownership check
DeleteRead(r) ==
    /\ reqs[r].kind = "DELETE" /\ reqs[r].pc = "begin"
    /\ IF EventCheck(reqs[r].event, reqs[r].user) # "ok"
          THEN Rollback(r, EventCheck(reqs[r].event, reqs[r].user))
          ELSE /\ reqs' = [reqs EXCEPT ![r].pc = "write"]
               /\ UNCHANGED <<eventOwner, eventName, acts, nextId, served, page>>

\* tx.event.delete (the activities go with the event: onDelete: Cascade), commit
DeleteWrite(r) ==
    LET q == reqs[r] IN
    /\ q.kind = "DELETE" /\ q.pc = "write"
    /\ \A i \in RowIds(q.event) : ~LockedByOther(r, i)
    /\ IF eventOwner[q.event] = NoUser
          THEN Rollback(r, "P2025")
          ELSE /\ eventOwner' = [eventOwner EXCEPT ![q.event] = NoUser]
               /\ eventName' = [eventName EXCEPT ![q.event] = ""]
               /\ acts' = [acts EXCEPT ![q.event] = << >>]
               /\ reqs' = [reqs EXCEPT ![r] = Respond(q, 200, "", << >>)]
               /\ UNCHANGED <<nextId, served, page>>

\* a failure inside the transaction: no slot within maxWait, the transaction
\* running past its timeout, the connection reset, a deadlock, ...
TxFail(r, msg) ==
    /\ InTx(r)
    /\ reqs[r].kind \in {"PATCH", "PUT", "DELETE"}
    /\ Rollback(r, msg)

\* the caller has its response
Forget(r) ==
    /\ reqs[r].pc = "done"
    /\ reqs[r].src.by = "api"
    /\ reqs' = [reqs EXCEPT ![r] = Idle]
    /\ UNCHANGED <<eventOwner, eventName, acts, nextId, served, page>>

\* ------------------------------------------------------------------ demo mode (localStorage)
\* An event of the demo store is written as its id alone: the pages replace
\* and append whole events and never look inside them to decide what to store.
MAX_DEMO_EVENTS == 5
Tabs == {1, 2}

\* a tab showing /demo, no handler at work (events: what getDemoEvents()
\* returned to the handler at work; arg: the event it is about, ids: the ones
\* it is to delete)
ListTab ==
    [route |-> "list", event |-> 0, pc |-> "idle", events |-> << >>, arg |-> 0, ids |-> {}]

\* a browser in which n demo events have been created, both tabs on /demo
DemoStart(n) ==
    /\ localStorage = [i \in 1..n |-> i]
    /\ tabs = [t \in Tabs |-> ListTab]
    /\ generated = n
    /\ handled = 0

\* a browser that has never seen demo mode
DemoInit == DemoStart(0)

IdleOn(t, route) == tabs[t].pc = "idle" /\ tabs[t].route = route

\* the back links and Cancel: router.push('/demo')
OpenList(t) ==
    /\ tabs[t].pc = "idle" /\ tabs[t].route # "list"
    /\ tabs' = [tabs EXCEPT ![t] = ListTab]
    /\ UNCHANGED <<localStorage, generated, handled>>

\* the Create New Event link
OpenNew(t) ==
    /\ IdleOn(t, "list")
    /\ tabs' = [tabs EXCEPT ![t].route = "new"]
    /\ UNCHANGED <<localStorage, generated, handled>>

\* handleImport: a file with valid event data; the limit is checked, the data
\* go to sessionStorage and the new-event page opens with them
HandleImport(t) ==
    /\ IdleOn(t, "list")
    /\ Len(localStorage) < MAX_DEMO_EVENTS
    /\ tabs' = [tabs EXCEPT ![t].route = "new"]
    /\ UNCHANGED <<localStorage, generated, handled>>

\* the link to /demo/events/[id] of a listed event
OpenEvent(t, id) ==
    /\ IdleOn(t, "list")
    /\ tabs' = [tabs EXCEPT ![t].route = "event", ![t].pc = "mount", ![t].arg = id]
    /\ UNCHANGED <<localStorage, generated, handled>>

\* the effect of the event page: getDemoEventById, or back to /demo
DemoLoadEvent(t) ==
    /\ tabs[t].pc = "mount"
    /\ tabs' = [tabs EXCEPT ![t] =
            IF tabs[t].arg \in Range(localStorage)
                THEN [ListTab EXCEPT !.route = "event", !.event = tabs[t].arg]
                ELSE ListTab]
    /\ UNCHANGED <<localStorage, generated, handled>>

\* deleteDemoEvent / handleBulkDeleteExecute: getDemoEvents() ...
DeleteDemoEvents(t, ids) ==
    /\ IdleOn(t, "list")
    /\ tabs' = [tabs EXCEPT ![t].pc = "delete", ![t].events = localStorage, ![t].ids = ids]
    /\ handled < MaxHandled
    /\ handled' = handled + 1
    /\ UNCHANGED <<localStorage, generated>>

\* events.filter(...)
Filter(events, ids) ==
    LET F[i \in 0..Len(events)] ==
            IF i = 0 THEN << >>
            ELSE IF events[i] \notin ids THEN Append(F[i-1], events[i]) ELSE F[i-1]
    IN  F[Len(events)]

\* ... localStorage.setItem(DEMO_EVENTS_KEY, JSON.stringify(filtered))
DeleteDemoEventsWrite(t) ==
    /\ tabs[t].pc = "delete"
    /\ localStorage' = Filter(tabs[t].events, tabs[t].ids)
    /\ tabs' = [tabs EXCEPT ![t] = ListTab]
    /\ UNCHANGED <<generated, handled>>

\* duplicateDemoEvent up to its call of saveDemoEvent: the event is looked up,
\* the limit checked, the copy gets a fresh id
DuplicateDemoEvent(t, id) ==
    /\ IdleOn(t, "list")
    /\ id \in Range(localStorage)
    /\ Len(localStorage) < MAX_DEMO_EVENTS
    /\ generated < MaxGenerated
    /\ generated' = generated + 1
    /\ tabs' = [tabs EXCEPT ![t].pc = "save", ![t].arg = generated + 1]
    /\ handled < MaxHandled
    /\ handled' = handled + 1
    /\ UNCHANGED localStorage

\* handleSave of the new-event page up to its call of saveDemoEvent
DemoHandleSave(t) ==
    /\ IdleOn(t, "new")
    /\ Len(localStorage) < MAX_DEMO_EVENTS
    /\ generated < MaxGenerated
    /\ generated' = generated + 1
    /\ tabs' = [tabs EXCEPT ![t].pc = "save", ![t].arg = generated + 1]
    /\ handled < MaxHandled
    /\ handled' = handled + 1
    /\ UNCHANGED localStorage

\* the event page: handleStartActivity, handleActivityStop,
\* handleUpdateActivities, handleSaveEventDetails up to saveDemoEvent(updatedEvent)
DemoEventPageSave(t) ==
    /\ IdleOn(t, "event")
    /\ tabs[t].event # 0
    /\ tabs' = [tabs EXCEPT ![t].pc = "save", ![t].arg = tabs[t].event]
    /\ handled < MaxHandled
    /\ handled' = handled + 1
    /\ UNCHANGED <<localStorage, generated>>

\* saveDemoEvent: const events = getDemoEvents()
SaveDemoEventRead(t) ==
    /\ tabs[t].pc = "save"
    /\ tabs' = [tabs EXCEPT ![t].pc = "write", ![t].events = localStorage]
    /\ UNCHANGED <<localStorage, generated, handled>>

\* what saveDemoEvent of the page at route stores, given the events it read
\* (the same list when it returns before setItem would change anything)
SaveDemoEvent(route, events, id, stored) ==
    IF id \in Range(events) THEN events
    ELSE IF route # "event" /\ Len(events) >= MAX_DEMO_EVENTS THEN stored
    ELSE Append(events, id)

\* saveDemoEvent: the rest; the new-event page then goes to the event's page
SaveDemoEventWrite(t) ==
    /\ tabs[t].pc = "write"
    /\ localStorage' = SaveDemoEvent(tabs[t].route, tabs[t].events, tabs[t].arg, localStorage)
    /\ tabs' = [tabs EXCEPT ![t] =
            IF tabs[t].route = "new"
                THEN [ListTab EXCEPT !.route = "event", !.pc = "mount", !.arg = tabs[t].arg]
                ELSE [tabs[t] EXCEPT !.pc = "idle", !.events = << >>, !.arg = 0]]
    /\ UNCHANGED <<generated, handled>>

\* the ids a tab may have on its screen
Listed == 1..generated
\* what is deleted at once: one event (handleDelete), or those of a date range,
\* here the range that holds them all (handleBulkDeleteExecute)
Deletions == {{id} : id \in Listed} \cup {ids \in {Listed} : ids # {}}

NextDemo ==
    \/ \E t \in Tabs : OpenList(t) /\ UNCHANGED appVars
    \/ \E t \in Tabs : OpenNew(t) /\ UNCHANGED appVars
    \/ \E t \in Tabs : HandleImport(t) /\ UNCHANGED appVars
    \/ \E t \in Tabs, id \in Listed : OpenEvent(t, id) /\ UNCHANGED appVars
    \/ \E t \in Tabs : DemoLoadEvent(t) /\ UNCHANGED appVars
    \/ \E t \in Tabs, ids \in Deletions : DeleteDemoEvents(t, ids) /\ UNCHANGED appVars
    \/ \E t \in Tabs : DeleteDemoEventsWrite(t) /\ UNCHANGED appVars
    \/ \E t \in Tabs, id \in Listed : DuplicateDemoEvent(t, id) /\ UNCHANGED appVars
    \/ \E t \in Tabs : DemoHandleSave(t) /\ UNCHANGED appVars
    \/ \E t \in Tabs : DemoEventPageSave(t) /\ UNCHANGED appVars
    \/ \E t \in Tabs : SaveDemoEventRead(t) /\ UNCHANGED appVars
    \/ \E t \in Tabs : SaveDemoEventWrite(t) /\ UNCHANGED appVars

\* ------------------------------------------------------------------ concurrent Start requests
ActivityRow(id, name, allotted, order) ==
    [id |-> id, activityName |-> name, timeAllotted |-> allotted, timeSpent |-> Null,
     extraTimeTaken |-> Null, timeGained |-> Null, isCompleted |-> FALSE,
     isActive |-> FALSE, order |-> order]

\* an event as POST /api/events leaves it
FreshRows == <<ActivityRow(1, "A", 2, 0), ActivityRow(2, "B", 1, 1)>>
\* the same event once its first activity has been started
RunningRows == <<[ActivityRow(1, "A", 2, 0) EXCEPT !.isActive = TRUE], ActivityRow(2, "B", 1, 1)>>

StartBody ==
    [F |-> {"isActive"}, isActive |-> TRUE]

AppInit(rows) ==
    /\ eventOwner = [e \in EventIds |-> CASE e = "e1" -> "u1" [] e = "e2" -> "u2" [] OTHER -> NoUser]
    /\ acts = [e \in EventIds |-> CASE e = "e1" -> rows
                                    [] e = "e2" -> <<ActivityRow(3, "A", 1, 0)>>
                                    [] OTHER -> << >>]
    /\ eventName = [e \in EventIds |-> IF e \in {"e1", "e2"} THEN "Gala" ELSE ""]
    /\ nextId = 4
    /\ reqs = [r \in ReqIds |-> Idle]
    /\ served = 0
    /\ page = NoPage

InitStore(rows) == AppInit(rows) /\ DemoInit

InitStart == \E rows \in {FreshRows, RunningRows} : InitStore(rows)

NextStart ==
    \/ \E r \in ReqIds, a \in RowIds("e1") :
            /\ served < MaxServed
            /\ PatchRecv(r, "timeouts", Api, "u1", "e1", a, StartBody)
            /\ UNCHANGED page /\ UNCHANGED demoVars
    \/ \E r \in ReqIds :
        \/ PatchReadEvent(r) /\ UNCHANGED demoVars
        \/ PatchReadActivity(r) /\ UNCHANGED demoVars
        \/ PatchDeactivate(r) /\ UNCHANGED demoVars
        \/ PatchDeactivateResume(r) /\ UNCHANGED demoVars
        \/ PatchUpdate(r) /\ UNCHANGED demoVars
        \/ Forget(r) /\ UNCHANGED demoVars

SpecStart == InitStart /\ [][NextStart]_vars

\* demo mode in a browser with none to five demo events
InitDemo == \E n \in 0..MAX_DEMO_EVENTS : AppInit(FreshRows) /\ DemoStart(n)

SpecDemo == InitDemo /\ [][NextDemo]_vars

\* ------------------------------------------------------------------ requests one after the other
\* an element of a PUT body's activities array
Item(name, allotted, spent, extra, gained, completed, active) ==
    [activityName |-> name, timeAllotted |-> allotted, timeSpent |-> spent,
     extraTimeTaken |-> extra, timeGained |-> gained,
     isCompleted |-> completed, isActive |-> active]

Items ==
    { Item("A", Some(4), Null, Null, Null, FALSE, FALSE),
      Item("B", Some(2), Null, Null, Null, FALSE, TRUE),
      Item("C", Some(3), Some(2), Some(0), Some(2), TRUE, TRUE),
      Item(" ", Null, Some(3), Null, Null, TRUE, FALSE) }

ItemLists == UNION {[1..n -> Items] : n \in 0..MaxLen}

PutBodies ==
    {[F |-> {"activities"}, activities |-> L] : L \in ItemLists}
    \cup {[F |-> {"eventName"}, eventName |-> n] : n \in {"Fair ", " ", "#7"}}
    \cup {[F |-> {"eventName", "activities"}, eventName |-> n, activities |-> L] :
            n \in {"Fair ", ""}, L \in {<<Item("A", Some(4), Null, Null, Null, FALSE, FALSE)>>}}
    \cup {[F |-> {"eventDate"}, eventDate |-> d] : d \in {"NaN"}}

PatchBodies ==
    { StartBody,
      [F |-> {"timeSpent", "extraTimeTaken", "timeGained", "isCompleted", "isActive"},
       timeSpent |-> Some(6), extraTimeTaken |-> Some(2), timeGained |-> Some(0),
       isCompleted |-> TRUE, isActive |-> FALSE],
      [F |-> {"activityName"}, activityName |-> " "],
      [F |-> {"activityName", "isActive"}, activityName |-> "#7", isActive |-> TRUE],
      [F |-> {"activityName"}, activityName |-> "B "],
      [F |-> {"timeAllotted", "isActive"}, timeAllotted |-> 0 - 1, isActive |-> TRUE],
      [F |-> {"timeAllotted", "order"}, timeAllotted |-> 3, order |-> 0],
      [F |-> {"timeSpent"}, timeSpent |-> Some(0 - 3)] }

\* who asks for what: the owner of e1 works on every event id, another
\* account and an anonymous caller go for e1
Callers == {<<"u1", e>> : e \in EventIds} \cup {<<"u2", "e1">>, <<Anon, "e1">>}

\* the activity ids asked for: every row there is, and an id of no row
PatchTargets == {row.id : row \in AllRows} \cup {0}

Quiet == \A r \in ReqIds : reqs[r].pc = "idle"

Accepting == Quiet /\ served < MaxServed

InitApi == \E rows \in {FreshRows, RunningRows} : InitStore(rows)

NextApi ==
    \/ \E c \in Callers, a \in PatchTargets, v \in {"timeouts", "legacy"}, b \in PatchBodies :
            Accepting /\ PatchRecv(1, v, Api, c[1], c[2], a, b) /\ UNCHANGED page /\ UNCHANGED demoVars
    \/ \E c \in Callers, b \in PutBodies :
            Accepting /\ PutRecv(1, Api, c[1], c[2], b) /\ UNCHANGED page /\ UNCHANGED demoVars
    \/ \E c \in Callers : Accepting /\ Get(1, Api, c[1], c[2]) /\ UNCHANGED page /\ UNCHANGED demoVars
    \/ \E c \in Callers : Accepting /\ DeleteRecv(1, c[1], c[2]) /\ UNCHANGED page /\ UNCHANGED demoVars
    \/ PatchReadEvent(1) /\ UNCHANGED demoVars
    \/ PatchReadActivity(1) /\ UNCHANGED demoVars
    \/ PatchDeactivate(1) /\ UNCHANGED demoVars
    \/ PatchUpdate(1) /\ UNCHANGED demoVars
    \/ PutReadEvent(1) /\ UNCHANGED demoVars
    \/ PutDelete(1) /\ UNCHANGED demoVars
    \/ PutWrite(1) /\ UNCHANGED demoVars
    \/ DeleteRead(1) /\ UNCHANGED demoVars
    \/ DeleteWrite(1) /\ UNCHANGED demoVars
    \/ \E msg \in {"timeout", "ECONNRESET", "P2002"} : TxFail(1, msg) /\ UNCHANGED demoVars
    \/ Forget(1) /\ UNCHANGED demoVars

SpecApi == InitApi /\ [][NextApi]_vars

\* ------------------------------------------------------------------ the event page (client)
PageUser == "u1"
PageEvent == "e1"
PageSlot == 1

Max(x, y) == IF x >= y THEN x ELSE y
Min(x, y) == IF x <= y THEN x ELSE y

\* a.timeSpent || undefined: null and 0 both become undefined
OrUndefined(x) == IF x = Null \/ x[1] = 0 THEN Null ELSE x

\* transformEvent: the activities of a response as the client keeps them
transformEvent(rows) ==
    [i \in DOMAIN rows |->
        [id |-> rows[i].id,
         activityName |-> rows[i].activityName,
         timeAllotted |-> rows[i].timeAllotted,
         timeSpent |-> OrUndefined(rows[i].timeSpent),
         extraTimeTaken |-> OrUndefined(rows[i].extraTimeTaken),
         timeGained |-> OrUndefined(rows[i].timeGained),
         isCompleted |-> rows[i].isCompleted,
         isActive |-> rows[i].isActive]]

\* JSON.stringify of an optional number: an undefined field is left out
JsonOpt(x) == IF x = Null THEN Null ELSE Some(ToJson(x[1]))

\* updateEvent(eventId, { activities }): the body of the PUT
UpdateEventBody(activities) ==
    [F |-> {"activities"},
     activities |-> [i \in DOMAIN activities |->
        Item(activities[i].activityName, Some(ToJson(activities[i].timeAllotted)),
             JsonOpt(activities[i].timeSpent), JsonOpt(activities[i].extraTimeTaken),
             JsonOpt(activities[i].timeGained),
             activities[i].isCompleted, activities[i].isActive)]]

\* activities.findIndex(...): the first 0-based index that satisfies P, or -1
\* (hits[i] tells whether the element at index i - 1 satisfies it)
FindIndex(hits) ==
    IF \E i \in DOMAIN hits : hits[i]
        THEN (CHOOSE i \in DOMAIN hits : hits[i] /\ \A j \in 1..(i - 1) : ~hits[j]) - 1
        ELSE 0 - 1

\* a => !a.isCompleted
NotCompleted(activities) == [i \in DOMAIN activities |-> ~activities[i].isCompleted]
EveryCompleted(activities) == \A i \in DOMAIN activities : activities[i].isCompleted

Activities(p) == IF p.event = Null THEN << >> ELSE p.event[1]
\* const validIndex = Math.max(0, Math.min(currentActivityIndex, length - 1))
ValidIndex(p) == Max(0, Min(p.currentActivityIndex, Len(Activities(p)) - 1))
HasCurrent(p) == p.event # Null /\ Len(Activities(p)) > 0
CurrentActivity(p) == Activities(p)[ValidIndex(p) + 1]
AllCompleted(p) ==
    p.allCompletedState \/ (Len(Activities(p)) > 0 /\ EveryCompleted(Activities(p)))
\* the branch of the render that shows the current activity and the editor
ShowsActivity(p) == p.event # Null /\ ~AllCompleted(p) /\ HasCurrent(p)
\* <Timer> is mounted (and, its effect having run, running)
ShowsTimer(p) == ShowsActivity(p) /\ p.isEventStarted /\ CurrentActivity(p).isActive

\* what a render and its effects make of new state: the index is clamped,
\* allCompletedState follows the event, the activity list takes the event's
\* activities unless it is being edited (it is mounted afresh when it comes back)
Render(old, new) ==
    LET n == Len(Activities(new))
        p1 == [new EXCEPT !.currentActivityIndex = IF n > 0 THEN ValidIndex(new) ELSE @]
        p2 == [p1 EXCEPT !.allCompletedState =
                            IF new.event # Null /\ n > 0 THEN EveryCompleted(Activities(new)) ELSE @]
    IN  IF ~ShowsActivity(p2)
            THEN [p2 EXCEPT !.isEditing = FALSE, !.editedActivities = Activities(new)]
        ELSE IF ~p2.isEditing /\ (new.event # old.event \/ old.isEditing \/ ~ShowsActivity(old))
            THEN [p2 EXCEPT !.editedActivities = Activities(new)]
        ELSE p2

\* loadEvent: getEventById, once, when the page is mounted (the response goes
\* to the fetch r that asked)
LoadEvent(r) ==
    /\ page.event = Null
    /\ \A q \in ReqIds : reqs[q].pc = "idle"
    /\ Get(r, [by |-> "load"], PageUser, PageEvent)
    /\ UNCHANGED page

\* extraTimeTaken taken as the plain difference
StopActivity_Difference(a, timeSpent) ==
    [a EXCEPT !.timeSpent = Some(timeSpent),
              !.extraTimeTaken = Some(timeSpent - a.timeAllotted),
              !.timeGained = Some(IF timeSpent <= a.timeAllotted
                                     THEN a.timeAllotted - timeSpent ELSE 0),
              !.isCompleted = TRUE,
              !.isActive = FALSE]

\* the activity the Stop ends, as the map of handleActivityStop builds it
StopActivity(a, timeSpent) ==
    [a EXCEPT !.timeSpent = Some(timeSpent),
              !.extraTimeTaken = Some(IF timeSpent > a.timeAllotted
                                         THEN timeSpent - a.timeAllotted ELSE 0),
              !.timeGained = Some(IF timeSpent <= a.timeAllotted
                                     THEN a.timeAllotted - timeSpent ELSE 0),
              !.isCompleted = TRUE,
              !.isActive = FALSE]

\* the stopped activity goes to the end of the list
StopActivities_Moved(p, timeSpent) ==
    Append(Without(Activities(p), {CurrentActivity(p).id}),
           StopActivity(CurrentActivity(p), timeSpent))

\* updatedActivities of handleActivityStop
StopActivities(p, timeSpent) ==
    [i \in DOMAIN Activities(p) |->
        IF i - 1 = p.currentActivityIndex
            THEN StopActivity(Activities(p)[i], timeSpent)
            ELSE Activities(p)[i]]

\* Timer.handleStop -> handleActivityStop(elapsed): the optimistic update, the
\* next index, and the PUT on its way
HandleActivityStop(r, timeSpent) ==
    LET updated == StopActivities(page, timeSpent)
        nextIndex == FindIndex(NotCompleted(updated))
    IN  /\ ShowsTimer(page)
        /\ ~CurrentActivity(page).isCompleted
        /\ PutRecv(r, [by |-> "stop", event |-> page.event, timeSpent |-> timeSpent],
                   PageUser, PageEvent, UpdateEventBody(updated))
        /\ page' = Render(page,
                [page EXCEPT !.event = Some(updated),
                             !.allCompletedState = EveryCompleted(updated),
                             !.isEventStarted = TRUE,
                             !.currentActivityIndex =
                                 IF EveryCompleted(updated) THEN 0
                                 ELSE IF nextIndex >= 0 THEN nextIndex ELSE @])

\* handleStartActivity: the Start Activity button
HandleStartActivity(r) ==
    /\ ShowsActivity(page) /\ ~ShowsTimer(page)
    /\ ~CurrentActivity(page).isCompleted
    /\ PutRecv(r, [by |-> "start"], PageUser, PageEvent,
               UpdateEventBody([i \in DOMAIN Activities(page) |->
                    [Activities(page)[i] EXCEPT !.isActive = (i - 1 = page.currentActivityIndex)]]))
    /\ UNCHANGED page

HasNextActivity(p) ==
    \E i \in DOMAIN Activities(p) : i - 1 > p.currentActivityIndex /\ ~Activities(p)[i].isCompleted
NextIncomplete(p) ==
    FindIndex([i \in DOMAIN Activities(p) |->
                    i - 1 > p.currentActivityIndex /\ ~Activities(p)[i].isCompleted])

\* handleNextActivity, from the Timer's overlay
HandleNextActivity ==
    /\ ShowsTimer(page) /\ HasNextActivity(page)
    /\ page' = Render(page, [page EXCEPT !.currentActivityIndex = NextIncomplete(page)])
    /\ UNCHANGED <<eventOwner, eventName, acts, nextId, reqs, served>>

\* handleStartNextActivity, from the Timer's overlay
HandleStartNextActivity(r) ==
    /\ ShowsTimer(page) /\ HasNextActivity(page)
    /\ PutRecv(r, [by |-> "startNext"], PageUser, PageEvent,
               UpdateEventBody([i \in DOMAIN Activities(page) |->
                    [Activities(page)[i] EXCEPT !.isActive = (i - 1 = NextIncomplete(page))]]))
    /\ page' = Render(page, [page EXCEPT !.currentActivityIndex = NextIncomplete(page)])

\* the Previous and Next buttons under an activity that is not active
Navigate(delta) ==
    /\ ShowsActivity(page) /\ ~CurrentActivity(page).isActive
    /\ page.currentActivityIndex + delta \in 0..(Len(Activities(page)) - 1)
    /\ page' = Render(page, [page EXCEPT !.currentActivityIndex = @ + delta])
    /\ UNCHANGED <<eventOwner, eventName, acts, nextId, reqs, served>>

\* EditableActivityList: if (!isEditing && !disabled) it renders the read-only
\* list with the Edit button, otherwise the edit view
EditView(p) == ShowsActivity(p) /\ (p.isEditing \/ p.isEventStarted)

\* the Edit button: setIsEditing(true)
StartEditing ==
    /\ ShowsActivity(page) /\ ~EditView(page)
    /\ page' = [page EXCEPT !.isEditing = TRUE]
    /\ UNCHANGED <<eventOwner, eventName, acts, nextId, reqs, served>>

Edit(edited) ==
    /\ EditView(page)
    /\ page.edits < MaxEdits
    /\ page' = [page EXCEPT !.editedActivities = edited, !.edits = @ + 1]
    /\ UNCHANGED <<eventOwner, eventName, acts, nextId, reqs, served>>

HandleSaveEdit(editingIndex, editName, seconds) ==
    /\ editingIndex + 1 \in DOMAIN page.editedActivities
    /\ seconds # 0
    /\ Edit([page.editedActivities EXCEPT
                ![editingIndex + 1].activityName = Trim(editName),
                ![editingIndex + 1].timeAllotted = seconds])

\* updated.splice(index, 1)
SpliceOut(list, index) ==
    [i \in 1..(Len(list) - 1) |-> IF i - 1 < index THEN list[i] ELSE list[i + 1]]
\* updated.splice(index, 0, item): an index past the end appends
SpliceIn(list, index, item) ==
    [i \in 1..(Len(list) + 1) |->
        IF i - 1 < Min(index, Len(list)) THEN list[i]
        ELSE IF i - 1 = Min(index, Len(list)) THEN item
        ELSE list[i - 1]]

HandleDrop(draggedIndex, dropIndex) ==
    /\ draggedIndex + 1 \in DOMAIN page.editedActivities
    /\ dropIndex + 1 \in DOMAIN page.editedActivities
    /\ draggedIndex # dropIndex
    /\ Edit(SpliceIn(SpliceOut(page.editedActivities, draggedIndex), dropIndex,
                     page.editedActivities[draggedIndex + 1]))

HandleDelete(index) ==
    /\ index + 1 \in DOMAIN page.editedActivities
    /\ Edit(SpliceOut(page.editedActivities, index))

\* generateId() is written 0: the server gives every created row its own id
HandleAddActivity(newActivityName, seconds) ==
    /\ Trim(newActivityName) # "" /\ seconds # 0
    /\ Len(page.editedActivities) < MaxActivities
    /\ Edit(Append(page.editedActivities,
                   [id |-> 0, activityName |-> Trim(newActivityName), timeAllotted |-> seconds,
                    timeSpent |-> Null, extraTimeTaken |-> Null, timeGained |-> Null,
                    isCompleted |-> FALSE, isActive |-> FALSE]))

\* Save Changes: onUpdate(editedActivities) -> handleUpdateActivities; setIsEditing(false)
HandleSaveAll(r) ==
    /\ EditView(page)
    /\ PutRecv(r, [by |-> "update", activities |-> page.editedActivities,
                          index |-> page.currentActivityIndex],
               PageUser, PageEvent, UpdateEventBody(page.editedActivities))
    /\ page' = Render(page, [page EXCEPT !.isEditing = FALSE])

HandleCancelAll ==
    /\ EditView(page)
    /\ page' = [page EXCEPT !.isEditing = FALSE, !.editedActivities = Activities(page)]
    /\ UNCHANGED <<eventOwner, eventName, acts, nextId, reqs, served>>

\* the index handleUpdateActivities chooses once the server has answered
IndexAfterUpdate(updatedActivities, index) ==
    LET firstIncomplete == FindIndex(NotCompleted(updatedActivities)) IN
    IF Len(updatedActivities) = 0 THEN 0
    ELSE IF index >= Len(updatedActivities)
        THEN (IF firstIncomplete >= 0 THEN firstIncomplete ELSE Len(updatedActivities) - 1)
    ELSE IF firstIncomplete >= 0 /\ firstIncomplete # index THEN firstIncomplete
    ELSE index

\* what the awaiting handler does with the response (q is the answered request)
Continue(p, q) ==
    LET ok == q.status = 200
        loaded == transformEvent(q.out)
        started == [i \in DOMAIN loaded |-> loaded[i].isCompleted \/ loaded[i].isActive]
    IN  CASE q.src.by = "load" ->
                IF ok THEN [p EXCEPT !.event = Some(loaded),
                                     !.isEventStarted = FindIndex(started) >= 0,
                                     !.currentActivityIndex =
                                        IF FindIndex(NotCompleted(loaded)) >= 0
                                            THEN FindIndex(NotCompleted(loaded)) ELSE @]
                      ELSE p
          [] q.src.by \in {"start", "startNext"} ->
                IF ok THEN [p EXCEPT !.event = Some(loaded), !.isEventStarted = TRUE]
                      ELSE p
          [] q.src.by = "stop" ->
                IF ok THEN [p EXCEPT !.event = Some(loaded)]
                      ELSE [p EXCEPT !.event = q.src.event]
          [] q.src.by = "update" ->
                IF ok THEN [p EXCEPT !.event = Some(loaded),
                                     !.currentActivityIndex =
                                        IndexAfterUpdate(q.src.activities, q.src.index)]
                      ELSE p

\* the response reaches the page
PageSettle(r) ==
    /\ reqs[r].pc = "done"
    /\ reqs[r].src.by # "api"
    /\ page' = Render(page, Continue(page, reqs[r]))
    /\ reqs' = [reqs EXCEPT ![r] = Idle]
    /\ UNCHANGED <<eventOwner, eventName, acts, nextId, served>>

EditNames == {"B", " "}
EditSeconds == {1, 3}

InitPage == InitStore(FreshRows)

NextPage ==
    \/ served < MaxPageRequests /\ LoadEvent(PageSlot) /\ UNCHANGED demoVars
    \/ served < MaxPageRequests /\ HandleStartActivity(PageSlot) /\ UNCHANGED demoVars
    \/ \E t \in 0..MaxElapsed : served < MaxPageRequests /\ HandleActivityStop(PageSlot, t) /\ UNCHANGED demoVars
    \/ HandleNextActivity /\ UNCHANGED demoVars
    \/ served < MaxPageRequests /\ HandleStartNextActivity(PageSlot) /\ UNCHANGED demoVars
    \/ \E d \in {0 - 1, 1} : Navigate(d) /\ UNCHANGED demoVars
    \/ StartEditing /\ UNCHANGED demoVars
    \/ \E i \in 0..(MaxActivities - 1), n \in EditNames, t \in EditSeconds : HandleSaveEdit(i, n, t) /\ UNCHANGED demoVars
    \/ \E i, j \in 0..(MaxActivities - 1) : HandleDrop(i, j) /\ UNCHANGED demoVars
    \/ \E i \in 0..(MaxActivities - 1) : HandleDelete(i) /\ UNCHANGED demoVars
    \/ \E n \in EditNames, t \in EditSeconds : HandleAddActivity(n, t) /\ UNCHANGED demoVars
    \/ served < MaxPageRequests /\ HandleSaveAll(PageSlot) /\ UNCHANGED demoVars
    \/ HandleCancelAll /\ UNCHANGED demoVars
    \/ PageSettle(PageSlot) /\ UNCHANGED demoVars
    \/ PutReadEvent(PageSlot) /\ UNCHANGED demoVars
    \/ PutDelete(PageSlot) /\ UNCHANGED demoVars
    \/ PutWrite(PageSlot) /\ UNCHANGED demoVars
    \/ \E msg \in {"timeout"} : TxFail(PageSlot, msg) /\ UNCHANGED demoVars

SpecPage == InitPage /\ [][NextPage]_vars

\* ------------------------------------------------------------------ the page with several requests in flight
\* no handler of the page waits for an earlier request before it sends its own:
\* the browser takes the first free connection
FreeSlot(r) == reqs[r].pc = "idle" /\ \A q \in 1..(r - 1) : reqs[q].pc # "idle"

\* what the page does, limit requests at most
PageActs(limit) ==
    \/ \E r \in ReqIds : FreeSlot(r) /\ served < limit /\ LoadEvent(r) /\ UNCHANGED demoVars
    \/ \E r \in ReqIds : FreeSlot(r) /\ served < limit /\ HandleStartActivity(r) /\ UNCHANGED demoVars
    \/ \E r \in ReqIds, t \in 0..MaxElapsed :
            FreeSlot(r) /\ served < limit /\ HandleActivityStop(r, t) /\ UNCHANGED demoVars
    \/ HandleNextActivity /\ UNCHANGED demoVars
    \/ \E r \in ReqIds : FreeSlot(r) /\ served < limit /\ HandleStartNextActivity(r) /\ UNCHANGED demoVars
    \/ \E d \in {0 - 1, 1} : Navigate(d) /\ UNCHANGED demoVars
    \/ \E r \in ReqIds : PageSettle(r) /\ UNCHANGED demoVars

\* what the server does with the page's requests
ServerActs ==
    \E r \in ReqIds :
        \/ PutReadEvent(r) /\ UNCHANGED demoVars
        \/ PutDelete(r) /\ UNCHANGED demoVars
        \/ PutDeleteResume(r) /\ UNCHANGED demoVars
        \/ PutWrite(r) /\ UNCHANGED demoVars

\* every request succeeds
NextRace == PageActs(MaxRaceRequests) \/ ServerActs

SpecRace == InitPage /\ [][NextRace]_vars

\* ------------------------------------------------------------------ the page when transactions fail
\* the same page and server, and a transaction may time out
NextRetry ==
    \/ PageActs(MaxPageRequests)
    \/ ServerActs
    \/ \E r \in ReqIds : TxFail(r, "timeout") /\ UNCHANGED demoVars

\* the server goes on with a request it has, and a response reaches the page;
\* nothing obliges the user to press a button
Serves == ServerActs
Delivers == \E r \in ReqIds : PageSettle(r) /\ UNCHANGED demoVars

SpecRetry == InitPage /\ [][NextRetry]_vars /\ WF_vars(Serves) /\ WF_vars(Delivers)

\* ------------------------------------------------------------------ properties of the page
\* the step in which the page's Stop handler runs
Stops ==
    /\ reqs[PageSlot].pc = "idle" /\ reqs'[PageSlot].pc # "idle"
    /\ reqs'[PageSlot].src.by = "stop"
Stopping == reqs[PageSlot].pc # "idle" /\ reqs[PageSlot].src.by = "stop"
Sample(allotted) ==
    [id |-> 1, activityName |-> "A", timeAllotted |-> allotted, timeSpent |-> Null,
     extraTimeTaken |-> Null, timeGained |-> Null, isCompleted |-> FALSE, isActive |-> TRUE]

\* C3: Stop with elapsed time e on the activity with allotted time a gives
\* spent = e, extra = max(0, e - a), gained = max(0, a - e), completed and not
\* active (a = 180: e = 150 gives gained 30, e = 200 gives extra 20); the other
\* activities are as before, and this is the list sent to the server
C3_StopComputes ==
    [][Stops =>
        LET e == reqs'[PageSlot].src.timeSpent
            i == page.currentActivityIndex + 1
            before == Activities(page)
            after == Activities(page')
        IN  /\ DOMAIN after = DOMAIN before
            /\ after[i] = [before[i] EXCEPT
                                !.timeSpent = Some(e),
                                !.extraTimeTaken = Some(Max(0, e - before[i].timeAllotted)),
                                !.timeGained = Some(Max(0, before[i].timeAllotted - e)),
                                !.isCompleted = TRUE,
                                !.isActive = FALSE]
            /\ \A j \in DOMAIN before \ {i} : after[j] = before[j]
            /\ reqs'[PageSlot].body = UpdateEventBody(after)
            /\ StopActivity(Sample(180), 150).timeGained = Some(30)
            /\ StopActivity(Sample(180), 150).extraTimeTaken = Some(0)
            /\ StopActivity(Sample(180), 200).extraTimeTaken = Some(20)
            /\ StopActivity(Sample(180), 200).timeGained = Some(0)]_vars

C3_Witness ==
    /\ Stopping
    /\ \E i \in DOMAIN Activities(page) :
          /\ Activities(page)[i].timeSpent = Some(reqs[PageSlot].src.timeSpent)
          /\ Activities(page)[i].extraTimeTaken # Null
          /\ Activities(page)[i].extraTimeTaken[1] > 0
    /\ \E j \in DOMAIN Activities(page) : ~Activities(page)[j].isCompleted

Val(x) == IF x = Null THEN 0 ELSE x[1]
SpentIdentity(a) ==
    a.isCompleted => Val(a.timeSpent) = a.timeAllotted + Val(a.extraTimeTaken) - Val(a.timeGained)

\* C4: every completed activity, in the store and in the page's copy, has
\* spent = allotted + extra - gained (a field that is not set counts 0)
C4_SpentIdentity ==
    /\ \A row \in AllRows : SpentIdentity(row)
    /\ \A i \in DOMAIN Activities(page) : SpentIdentity(Activities(page)[i])

ExactlyOne(a) == (Val(a.extraTimeTaken) # 0) # (Val(a.timeGained) # 0)

\* C5 (as stated): the activity a Stop completes has exactly one of extra and
\* gained nonzero, whatever the elapsed time, elapsed = allotted included
C5_ExactlyOneNonzero ==
    [][Stops => ExactlyOne(Activities(page')[page.currentActivityIndex + 1])]_vars

\* C5 (amended): exactly one of extra and gained is nonzero when the elapsed
\* time differs from the allotted time, and both are zero when they are equal
C5_OneNonzeroUnlessEqual ==
    [][Stops =>
        LET a == Activities(page')[page.currentActivityIndex + 1] IN
        /\ a.extraTimeTaken # Null /\ a.timeGained # Null
        /\ IF reqs'[PageSlot].src.timeSpent = a.timeAllotted
              THEN a.extraTimeTaken = Some(0) /\ a.timeGained = Some(0)
              ELSE ExactlyOne(a)]_vars

C5_Witness ==
    /\ Stopping
    /\ \E i \in DOMAIN Activities(page) :
          /\ Activities(page)[i].isCompleted
          /\ reqs[PageSlot].src.timeSpent = Activities(page)[i].timeAllotted
          /\ Activities(page)[i].timeSpent = Some(Activities(page)[i].timeAllotted)
          /\ Activities(page)[i].extraTimeTaken = Some(0)
          /\ Activities(page)[i].timeGained = Some(0)

\* ------------------------------------------------------------------ properties of the store
ActiveCount(e) == Cardinality({row \in Range(acts[e]) : row.isActive})
Settled == \A r \in ReqIds : ~InTx(r)
Done(q) == q.pc = "done"
Finishes(r) == reqs[r].pc # "done" /\ reqs'[r].pc = "done"
TxFailures == {"timeout", "ECONNRESET", "P2002"}

\* C1: once every Start transaction has committed or aborted, at most one
\* activity of the event is active
C1_MutualExclusion == Settled => ActiveCount("e1") <= 1

\* C2: after every committed mutation each event has at most one active
\* activity; a bulk replace never commits a list with two active activities
C2_AtMostOneRunning == \A e \in EventIds : ActiveCount(e) <= 1

\* C6: after a committed bulk replace with the list L the event has Len(L)
\* activities, the one at order i carries the name and the time fields of L[i],
\* and the order values are 0..Len(L)-1
C6_ReplaceCarriesList ==
    \A r \in ReqIds :
        LET q == reqs[r]
            L == q.body.activities
        IN  (Done(q) /\ q.kind = "PUT" /\ q.status = 200 /\ "activities" \in q.body.F) =>
                /\ Len(acts[q.event]) = Len(L)
                /\ {row.order : row \in Range(acts[q.event])} = 0..(Len(L) - 1)
                /\ \A i \in 1..Len(L) :
                     \E row \in Range(acts[q.event]) :
                        /\ row.order = i - 1
                        /\ row.activityName = L[i].activityName
                        /\ L[i].timeAllotted # Null
                        /\ ToJson(row.timeAllotted) = L[i].timeAllotted[1]
                        /\ \A f \in {"timeSpent", "extraTimeTaken", "timeGained"} :
                             \/ row[f] = Null /\ L[i][f] = Null
                             \/ row[f] # Null /\ L[i][f] # Null /\ ToJson(row[f][1]) = L[i][f][1]

\* a request for an event that is not the requester's: no such event, or
\* somebody else's
Denied(q) == q.kind \in {"PATCH", "PUT"} /\ q.user \in Users /\ eventOwner[q.event] # q.user
StoreUnchanged == acts' = acts /\ eventOwner' = eventOwner /\ eventName' = eventName

C8_Isolation ==
    [][/\ \A e \in EventIds :
            (acts'[e] # acts[e] \/ eventOwner'[e] # eventOwner[e] \/ eventName'[e] # eventName[e]) =>
                \E r \in ReqIds : /\ Finishes(r)
                                  /\ reqs'[r].event = e
                                  /\ reqs'[r].user = eventOwner[e]
       /\ \A r \in ReqIds :
            (Finishes(r) /\ (reqs'[r].status = 200 \/ reqs'[r].out # << >>)) =>
                /\ reqs'[r].user = eventOwner[reqs'[r].event]
                /\ \A row \in Range(reqs'[r].out) :
                      \E x \in Range(acts'[reqs'[r].event]) : x = row]_vars

C8_Witness ==
    \E r \in ReqIds :
        /\ Done(reqs[r]) /\ reqs[r].kind = "PATCH" /\ reqs[r].status = 404
        /\ reqs[r].user = eventOwner[reqs[r].event]
        /\ \E e \in EventIds \ {reqs[r].event} : reqs[r].act \in RowIds(e)

\* C9: a partial update or bulk replace that ends in an error response leaves
\* the event's stored activities exactly as they were before the request
C9_ErrorLeavesStore ==
    \A r \in ReqIds :
        (Done(reqs[r]) /\ reqs[r].kind \in {"PATCH", "PUT"} /\ reqs[r].status >= 400) =>
            acts[reqs[r].event] = reqs[r].pre

C9_Witness ==
    \E r \in ReqIds :
        /\ Done(reqs[r]) /\ reqs[r].kind = "PUT" /\ reqs[r].thrown = "timeout"
        /\ reqs[r].user = eventOwner[reqs[r].event]
        /\ reqs[r].pre # << >>

\* C10: a partial update or bulk replace whose transaction timed out or lost
\* its connection is answered 503
C10_TransientIs503 ==
    \A r \in ReqIds :
        (Done(reqs[r]) /\ reqs[r].kind \in {"PATCH", "PUT"}
            /\ reqs[r].thrown \in {"timeout", "ECONNRESET"}) => reqs[r].status = 503

\* a JSON number that is negative or not an integer (half units: odd)
BadNumber(x) == x < 0 \/ x % 2 # 0
BadOptional(x) == x # Null /\ BadNumber(x[1])
\* a body with an activity name or a time field the field rules forbid
PatchOffends(body) ==
    \/ "activityName" \in body.F /\ InvalidName(body.activityName)
    \/ "timeAllotted" \in body.F /\ BadNumber(body.timeAllotted)
    \/ \E f \in {"timeSpent", "extraTimeTaken", "timeGained"} \cap body.F : BadOptional(body[f])
PutOffends(body) ==
    /\ "activities" \in body.F
    /\ \E i \in DOMAIN body.activities :
          \/ InvalidName(body.activities[i].activityName)
          \/ \E f \in {"timeAllotted", "timeSpent", "extraTimeTaken", "timeGained"} :
                BadOptional(body.activities[i][f])
\* the request of an event's owner for a row of that event, ended by the handler
Addressed(q) ==
    /\ Done(q) /\ q.kind \in {"PATCH", "PUT"}
    /\ q.user = eventOwner[q.event]
    /\ q.thrown \notin TxFailures
    /\ q.kind = "PATCH" => q.act \in {row.id : row \in Range(q.pre)}

\* C11: a partial update or bulk replace carrying an empty, blank or non-string
\* activity name, or a time field that is negative or not an integer, is
\* answered 400 and commits nothing
C11_RejectsInvalid ==
    \A r \in ReqIds :
        LET q == reqs[r] IN
        (Addressed(q) /\ (IF q.kind = "PATCH" THEN PatchOffends(q.body) ELSE PutOffends(q.body))) =>
            /\ q.status = 400
            /\ acts[q.event] = q.pre

\* C12: every stored activity has timeAllotted >= 0 and, when present,
\* timeSpent, extraTimeTaken and timeGained >= 0 (whole seconds), whatever
\* bodies the clients send
C12_StoredNonNegative ==
    \A row \in AllRows :
        /\ row.timeAllotted >= 0
        /\ \A f \in {"timeSpent", "extraTimeTaken", "timeGained"} :
              row[f] # Null => row[f][1] >= 0

\* C15: the order values of an event with n activities are exactly 0..n-1,
\* also after a partial update that supplies order
C15_OrderIsPermutation ==
    \A e \in EventIds :
        {row.order : row \in Range(acts[e])} = 0..(Len(acts[e]) - 1)

\* ------------------------------------------------------------------ the activity's fields and its status
\* the activities the server stores and the ones the page holds
Everywhere == AllRows \cup Range(Activities(page))

\* C13: a Completed activity has exactly one of extraTimeTaken and timeGained
\* set and the other unset; a Pending or Running one has both unset
C13_ExtraXorGained ==
    \A a \in Everywhere :
        IF a.isCompleted
            THEN (a.extraTimeTaken # Null) # (a.timeGained # Null)
            ELSE a.extraTimeTaken = Null /\ a.timeGained = Null

\* C14: in the store and in the page's copy, also once the response of a Stop
\* has gone through transformEvent and for a Stop at elapsed 0, an activity has
\* timeSpent set exactly when it is Completed
C14_SpentIffCompleted ==
    \A a \in Everywhere : (a.timeSpent # Null) <=> a.isCompleted

\* ------------------------------------------------------------------ the commit of a Start
\* the step in which request r commits a partial update with isActive = true
CommitsStart(r) ==
    /\ Finishes(r)
    /\ reqs'[r].kind = "PATCH" /\ reqs'[r].status = 200
    /\ "isActive" \in reqs'[r].body.F /\ reqs'[r].body.isActive = TRUE

\* C20: when a partial update with isActive = true on activity T of event E
\* commits, T is active, every other activity of E is inactive, and the other
\* activities keep their isCompleted flag and their timing fields (so Start(A)
\* then Start(B) ends with B Running and A not)
C20_StartDemotesOthers ==
    [][\A r \in ReqIds :
          CommitsStart(r) =>
              LET e == reqs'[r].event
                  T == reqs'[r].act
              IN  /\ DOMAIN acts'[e] = DOMAIN acts[e]
                  /\ \A i \in DOMAIN acts'[e] :
                        IF acts'[e][i].id = T
                            THEN acts'[e][i].isActive
                            ELSE acts'[e][i] = [acts[e][i] EXCEPT !.isActive = FALSE]]_vars

\* ------------------------------------------------------------------ the page and the server once all is quiet
\* the status and the times of the activities of a list, in order
StatusAndTimes(list) ==
    [i \in DOMAIN list |->
        [isCompleted |-> list[i].isCompleted, isActive |-> list[i].isActive,
         timeSpent |-> list[i].timeSpent, extraTimeTaken |-> list[i].extraTimeTaken,
         timeGained |-> list[i].timeGained]]

\* C19: once the page has its event, every request has succeeded and none is
\* in flight, the page's activities (status, spent, extra, gained, in order)
\* are the ones the server stores, as a response would deliver them
C19_LocalEqualsServer ==
    (Quiet /\ page.event # Null) =>
        StatusAndTimes(Activities(page))
            = StatusAndTimes(transformEvent(OrderBy(acts[PageEvent])))

\* ------------------------------------------------------------------ requests that fail transiently
\* the page has the transient failure of request r in hand
FailedTransiently(r) ==
    /\ reqs[r].pc = "done" /\ reqs[r].src.by # "api"
    /\ reqs[r].thrown \in {"timeout", "ECONNRESET"}
\* a request of the page is on its way to the server again
Sending == \E q \in ReqIds : reqs[q].pc = "begin" /\ reqs[q].src.by # "api"

\* C16: an operation whose request failed transiently is sent again by the
\* client (three times in all if it keeps failing, then dropped, the sync status
\* being error from the first failure on): after a transient failure a request
\* of the page is on its way again
C16_FailedIsResent ==
    \A r \in ReqIds : [](FailedTransiently(r) => <>Sending)

\* ------------------------------------------------------------------ the demo limit
\* C18: whatever the tabs do (create, duplicate, import, delete, save from an
\* event page, their reads and writes of localStorage interleaved), the demo
\* store never holds more than 5 events
C18_AtMostFiveDemoEvents == Len(localStorage) <= MAX_DEMO_EVENTS

\* ------------------------------------------------------------------ what the page sends, and when
\* request slot r holds a request the page sent from one of its handlers
FromPage(r, handlers) == reqs[r].pc # "idle" /\ reqs[r].src.by \in handlers
\* the step in which such a handler sends its request through slot r
Sends(r, handlers) ==
    /\ reqs[r].pc = "idle" /\ reqs'[r].pc # "idle"
    /\ reqs'[r].src.by \in handlers
Pending(a) == ~a.isCompleted /\ ~a.isActive
Running(a) == ~a.isCompleted /\ a.isActive

\* C21: at most one Start, Start-next or Stop request of the event is in flight
\* at any time (a Start activated while an earlier one still awaits its response
\* sends nothing)
C21_OneInFlight ==
    Cardinality({r \in ReqIds : FromPage(r, {"start", "startNext", "stop"})}) <= 1

\* C22: when the request of a Stop has failed, the page keeps its optimistic
\* state: the response leaves the page's activities as the Stop made them
C22_FailedStopKeepsState ==
    [][\A r \in ReqIds :
          (/\ reqs[r].pc = "done" /\ reqs[r].src.by = "stop" /\ reqs[r].status # 200
           /\ reqs'[r].pc = "idle")
            => Activities(page') = Activities(page)]_vars

\* C23: the page sends a Start (Start-next included) only for an activity that
\* is Pending while no activity of the event is Running
C23_StartOnlyWhenIdle ==
    [][\A r \in ReqIds :
          Sends(r, {"start", "startNext"}) =>
              LET target == IF reqs'[r].src.by = "start"
                               THEN page.currentActivityIndex ELSE NextIncomplete(page)
              IN  /\ Pending(Activities(page)[target + 1])
                  /\ \A i \in DOMAIN Activities(page) : ~Running(Activities(page)[i])]_vars

Status(a) == IF a.isCompleted THEN "Completed" ELSE IF a.isActive THEN "Running" ELSE "Pending"
\* the step in which the response to a save of the activity list editor reaches
\* the page (it may bring another list altogether)
SettlesUpdate ==
    \E r \in ReqIds : reqs[r].pc = "done" /\ reqs[r].src.by = "update" /\ reqs'[r].pc = "idle"

\* C24: on the page every change of an activity's status is Pending to Running,
\* Running to Completed or Pending to Completed, through Start, Stop,
\* Start-next, navigation, failed requests and the responses taken in
C24_StatusOnlyAdvances ==
    [][(page.event # Null /\ ~SettlesUpdate) =>
          /\ DOMAIN Activities(page') = DOMAIN Activities(page)
          /\ \A i \in DOMAIN Activities(page) :
                \/ Status(Activities(page')[i]) = Status(Activities(page)[i])
                \/ <<Status(Activities(page)[i]), Status(Activities(page')[i])>> \in
                      {<<"Pending", "Running">>, <<"Running", "Completed">>, <<"Pending", "Completed">>}]_vars

\* ------------------------------------------------------------------ one Stop for one run
\* C25: Stop takes effect at most once per activity: the page sends a Stop only
\* for an activity that is Running, and never for one whose time the server has
\* recorded already (one run, one record)
C25_StopOncePerRun ==
    [][\A r \in ReqIds :
          Sends(r, {"stop"}) =>
              LET a == Activities(page)[page.currentActivityIndex + 1] IN
              /\ Running(a)
              /\ \A row \in Range(acts[PageEvent]) :
                    row.activityName = a.activityName => ~row.isCompleted]_vars

\* ------------------------------------------------------------------ the requests Start and Stop are sent as
\* C26: every Start and every Stop of the page goes to the server as a partial
\* update (PATCH) of the one activity; a bulk replace (PUT) is sent only for an
\* edit of the activity list
C26_StartStopArePartial ==
    \A r \in ReqIds :
        /\ FromPage(r, {"start", "startNext", "stop"}) => reqs[r].kind = "PATCH"
        /\ (reqs[r].pc # "idle" /\ reqs[r].src.by # "api" /\ reqs[r].kind = "PUT")
              => reqs[r].src.by = "update"

\* the event has been started: one of its activities is Running or Completed
Started(activities) ==
    \E i \in DOMAIN activities : activities[i].isActive \/ activities[i].isCompleted

\* C27: the page sends an edit of the activity list (reorder, add, remove,
\* rename) only while no activity of the event is Running or Completed
C27_NoEditOnceStarted ==
    [][\A r \in ReqIds : Sends(r, {"update"}) => ~Started(Activities(page))]_vars

\* ------------------------------------------------------------------ the current activity
\* C29: in every state of the page the current activity is the first one, by
\* order, that is not Completed, and the event is shown as complete exactly
\* when there is none
C29_CurrentIsFirstIncomplete ==
    (page.event # Null /\ Len(Activities(page)) > 0) =>
        IF EveryCompleted(Activities(page))
            THEN AllCompleted(page)
            ELSE /\ ~AllCompleted(page)
                 /\ ValidIndex(page) = FindIndex(NotCompleted(Activities(page)))

\* ------------------------------------------------------------------ what a partial update touches
\* the step in which request r commits a partial update
CommitsPatch(r) == Finishes(r) /\ reqs'[r].kind = "PATCH" /\ reqs'[r].status = 200
\* the fields of a stored activity
Columns == {"id", "activityName", "timeAllotted", "timeSpent", "extraTimeTaken",
            "timeGained", "isCompleted", "isActive", "order"}
Ascending(rows) == \A i, j \in DOMAIN rows : i < j => rows[i].order <= rows[j].order

formatTimeReadable(seconds) ==
    LET hours == seconds \div 3600
        minutes == (seconds % 3600) \div 60
        secs == seconds % 60
        h == IF hours > 0 THEN << <<hours, IF hours = 1 THEN "hour" ELSE "hours">> >> ELSE << >>
        m == IF minutes > 0
                THEN << <<minutes, IF minutes = 1 THEN "minute" ELSE "minutes">> >> ELSE << >>
        s == IF secs > 0 \/ Len(h \o m) = 0
                THEN << <<secs, IF secs = 1 THEN "second" ELSE "seconds">> >> ELSE << >>
    IN  h \o m \o s

\* one element of the map of convertActivitiesToResults
ActivityResult(activity) ==
    LET timeSpent == Val(activity.timeSpent)
        timeAllotted == activity.timeAllotted
    IN  [activityName |-> activity.activityName,
         timeAllotted |-> formatTimeReadable(timeAllotted),
         timeSpent |-> formatTimeReadable(timeSpent),
         extraTimeTaken |-> formatTimeReadable(IF timeSpent > timeAllotted
                                                  THEN timeSpent - timeAllotted ELSE 0),
         timeGained |-> formatTimeReadable(IF timeSpent > timeAllotted
                                              THEN 0 ELSE timeAllotted - timeSpent)]

\* convertActivitiesToResults: the rows of the export (JSON and CSV alike)
convertActivitiesToResults(activities) ==
    LET F[i \in 0..Len(activities)] ==
            IF i = 0 THEN << >>
            ELSE IF activities[i].isCompleted /\ activities[i].timeSpent # Null
                THEN Append(F[i-1], ActivityResult(activities[i]))
                ELSE F[i-1]
    IN  F[Len(activities)]

\* the page shows the summary with the export buttons, and no request is under way
ExportReady ==
    /\ Quiet /\ page.event # Null
    /\ Len(Activities(page)) > 0 /\ EveryCompleted(Activities(page))

\* C30: once every activity has been stopped and the responses are taken in,
\* the export has one row per activity, in order, and the row's time spent,
\* extra time and time gained are the values its Stop computed (the ones the
\* server stores), for every elapsed time, 0 included
C30_ExportHasEveryStop ==
    ExportReady =>
        LET results == convertActivitiesToResults(Activities(page))
            rows == OrderBy(acts[PageEvent])
        IN  /\ Len(results) = Len(Activities(page))
            /\ Len(results) = Len(rows)
            /\ \A i \in DOMAIN rows :
                  /\ results[i].activityName = rows[i].activityName
                  /\ results[i].timeSpent = formatTimeReadable(Val(rows[i].timeSpent))
                  /\ results[i].extraTimeTaken = formatTimeReadable(Val(rows[i].extraTimeTaken))
                  /\ results[i].timeGained = formatTimeReadable(Val(rows[i].timeGained))

====
